---- MODULE Spec2Model ----
(***************************************************************************)
(* Model of the chapter-map batch geocoder (scripts/geocode.js, the        *)
(* revision with the Open-Meteo primary and the Nominatim fallback).       *)
(*                                                                         *)
(* Text is modelled as a sequence of tokens: a token is a word ("Mt",      *)
(* "County"), a blank " " or a separator (",", "|").  Two words are never  *)
(* adjacent in an input cell, so a token sequence stands for exactly one   *)
(* JavaScript string.  Coordinates are numerals kept as text ("43.6");     *)
(* JavaScript's null is the value Null.  The officer columns of the CSV    *)
(* are passed through untouched by the program and are left out.           *)
(***************************************************************************)
EXTENDS Integers, Sequences, FiniteSets, TLC

(* ------------------------------ bounds --------------------------------- *)

\* Largest number of data rows of an input table of the batch run.
MaxRows == 2
\* Largest number of data rows of an input table of the two-run check.
MaxRowsRerun == 1
\* Largest number of hits in a provider response given to the selection.
MaxHits == 2

(* ----------------------------- text model ------------------------------ *)

Null == "null"
NaN == "NaN"
Empty == << >>
Blank == " "

\* String.prototype.toLowerCase, token by token.
LowerTable ==
  ("Mt" :> "mt") @@ ("MT" :> "mt") @@ ("Mount" :> "mount") @@ ("St" :> "st") @@
  ("Saint" :> "saint") @@ ("Pleasant" :> "pleasant") @@ ("Louis" :> "louis") @@
  ("LOUIS" :> "louis") @@
  ("County" :> "county") @@ ("COUNTY" :> "county") @@ ("Station" :> "station") @@
  ("Cook" :> "cook") @@ ("Paris" :> "paris") @@ ("Washington" :> "washington") @@
  ("Michigan" :> "michigan") @@ ("MICHIGAN" :> "michigan") @@
  ("North" :> "north") @@ ("Carolina" :> "carolina") @@ ("Ontario" :> "ontario") @@
  ("USA" :> "usa") @@ ("Usa" :> "usa") @@ ("US" :> "us") @@ ("U.S." :> "u.s.") @@
  ("U.S.A." :> "u.s.a.") @@ ("UK" :> "uk") @@ ("U.K." :> "u.k.") @@
  ("United" :> "united") @@ ("UNITED" :> "united") @@ ("States" :> "states") @@
  ("STATES" :> "states") @@ ("Kingdom" :> "kingdom") @@ ("Canada" :> "canada") @@
  ("France" :> "france") @@ ("Germany" :> "germany") @@ ("Australia" :> "australia")

LowerTok(t) == IF t \in DOMAIN LowerTable THEN LowerTable[t] ELSE t

toLowerCase(s) == [k \in 1..Len(s) |-> LowerTok(s[k])]

\* A token of word characters (\w): everything but blanks and separators.
IsWord(t) == t \notin {Blank, ",", "|"}

RECURSIVE trimStart(_)
trimStart(s) == IF s # Empty /\ Head(s) = Blank THEN trimStart(Tail(s)) ELSE s

RECURSIVE trimEnd(_)
trimEnd(s) ==
  IF s # Empty /\ s[Len(s)] = Blank THEN trimEnd(SubSeq(s, 1, Len(s) - 1)) ELSE s

\* String.prototype.trim
trim(s) == trimEnd(trimStart(s))

\* s.replace(/\bW\b/gi, ""): drops every whole word equal to w ignoring case.
\* A token is a whole word when neither neighbour is a word token.
replaceWord(s, w) ==
  LET hit(k) == /\ LowerTok(s[k]) = w
                /\ (k = 1 \/ ~IsWord(s[k - 1]))
                /\ (k = Len(s) \/ ~IsWord(s[k + 1]))
      keep == {k \in 1..Len(s) : ~hit(k)}
      RECURSIVE pick(_)
      pick(k) == IF k > Len(s) THEN Empty
                 ELSE IF k \in keep THEN <<s[k]>> \o pick(k + 1) ELSE pick(k + 1)
  IN pick(1)

\* s.replace(/\s{2,}/g, " "): a run of two or more blanks becomes one blank.
RECURSIVE collapseSpaces(_)
collapseSpaces(s) ==
  IF Len(s) < 2 THEN s
  ELSE IF s[1] = Blank /\ s[2] = Blank THEN collapseSpaces(Tail(s))
  ELSE <<s[1]>> \o collapseSpaces(Tail(s))

\* parts.filter(Boolean).join(sep): empty strings are dropped before joining.
RECURSIVE joinNonEmpty(_, _)
joinNonEmpty(parts, sep) ==
  IF parts = Empty THEN Empty
  ELSE LET rest == joinNonEmpty(Tail(parts), sep)
       IN IF Head(parts) = Empty THEN rest
          ELSE IF rest = Empty THEN Head(parts)
          ELSE Head(parts) \o sep \o rest

(* ----------------------------- normalizer ------------------------------ *)

UnitedStates == <<"United", Blank, "States">>
UnitedKingdom == <<"United", Blank, "Kingdom">>

normalizeCountryName(country) ==
  LET c == toLowerCase(trim(country))
  IN IF c \in {<<"usa">>, <<"us">>, <<"u.s.">>, <<"u.s.a.">>} THEN UnitedStates
     ELSE IF c \in {<<"uk">>, <<"u.k.">>} THEN UnitedKingdom
     ELSE trim(country)

countryToISO2(country) ==
  LET c == toLowerCase(normalizeCountryName(country))
  IN IF c = <<"united", Blank, "states">> THEN <<"US">>
     ELSE IF c = <<"canada">> THEN <<"CA">>
     ELSE IF c = <<"australia">> THEN <<"AU">>
     ELSE IF c = <<"united", Blank, "kingdom">> THEN <<"GB">>
     ELSE IF c = <<"germany">> THEN <<"DE">>
     ELSE Empty

\* normalizePlaceName that does not strip the word "Station" (a faulty variant).
normalizePlaceName_KeepsStation(city) ==
  LET c1 == trim(city)
      c2 == trim(replaceWord(c1, "county"))
  IN collapseSpaces(c2)

normalizePlaceName(city) ==
  LET c1 == trim(city)
      c2 == trim(replaceWord(c1, "county"))
      c3 == trim(replaceWord(c2, "station"))
  IN collapseSpaces(c3)

makeCacheKey(row) ==
  LET city == toLowerCase(normalizePlaceName(row.City))
      state == toLowerCase(trim(row.StateRegion))
      country == toLowerCase(normalizeCountryName(row.Country))
  IN joinNonEmpty(<<city, state, country>>, <<"|">>)

\* One data line of the CSV: every cell is trimmed, the country is
\* canonicalised, and only the known columns are read (LatOverride and
\* LngOverride are not among them).
parseLine(line) ==
  [ChapterName |-> trim(line.ChapterName),
   City        |-> trim(line.City),
   StateRegion |-> trim(line.StateRegion),
   Country     |-> normalizeCountryName(trim(line.Country))]

parseCsv(lines) == [k \in 1..Len(lines) |-> parseLine(lines[k])]

\* The columns parseCsv requires of the header line.
required == <<"ChapterName", "City", "StateRegion", "Country">>

\* hasRequired that looks for the first required column only (a faulty variant).
hasRequired_FirstOnly(h) == \E k \in 1..Len(h) : h[k] = required[1]

\* header.indexOf(col) !== -1 for every required column.
hasRequired(h) ==
  \A c \in 1..Len(required) : \E k \in 1..Len(h) : h[k] = required[c]

(* ------------------------- provider responses -------------------------- *)

Numerals == {"35.7", "-79.0", "43.6", "-84.7", "48.8", "2.3", "40.0", "-75.0", "0"}

\* Number(v) for the values a response carries: a numeral is itself, null is
\* 0, anything else (a missing field, text) is NaN.
Number(v) == IF v \in Numerals THEN v ELSE IF v = Null THEN "0" ELSE NaN

isFinite(v) == v # NaN

NorthCarolina == <<"North", Blank, "Carolina">>

rawNC == [latitude |-> "35.7", longitude |-> "-79.0",
          country |-> UnitedStates, admin1 |-> NorthCarolina]
rawMI == [latitude |-> "43.6", longitude |-> "-84.7",
          country |-> UnitedStates, admin1 |-> <<"Michigan">>]
rawBad == [latitude |-> "n/a", longitude |-> "-84.7",
           country |-> UnitedStates, admin1 |-> <<"Michigan">>]

\* The `results` arrays Open-Meteo answers with in the batch run.
OpenMeteoResults == {Empty, <<rawBad>>, <<rawNC, rawMI>>}

\* The arrays Nominatim answers with in the batch run.
NominatimResults == {Empty, <<[lat |-> "48.8", lon |-> "2.3"]>>}

RECURSIVE filterFinite(_)
filterFinite(hs) ==
  IF hs = Empty THEN Empty
  ELSE IF isFinite(Head(hs).lat) /\ isFinite(Head(hs).lng)
       THEN <<Head(hs)>> \o filterFinite(Tail(hs))
       ELSE filterFinite(Tail(hs))

\* openMeteoSearch on a success response whose body holds `results`.
openMeteoHits(results) ==
  filterFinite([k \in 1..Len(results) |->
                  [lat |-> Number(results[k].latitude),
                   lng |-> Number(results[k].longitude),
                   country |-> results[k].country,
                   admin1 |-> results[k].admin1]])

\* geocodeNominatim on a success response whose body is the array `data`:
\* Empty stands for the `null` it returns.
nominatimHit(data) ==
  IF data = Empty THEN Empty
  ELSE LET lat == Number(data[1].lat)
           lng == Number(data[1].lon)
       IN IF ~isFinite(lat) \/ ~isFinite(lng) THEN Empty
          ELSE <<[lat |-> lat, lng |-> lng]>>

(* --------------------------- match selection --------------------------- *)

\* Array.prototype.find as an index: the least index of idx, the set of
\* indices whose element passes the test; 0 if there is none.
firstIndex(idx) == IF idx = {} THEN 0 ELSE CHOOSE k \in idx : \A m \in idx : k <= m

\* pickBest that takes the first hit, whatever its country and region (a faulty
\* variant).
pickBest_FirstHit(hits, row) == hits[1]

\* pickBest that compares the hit's country as written, letter case included
\* (a faulty variant).
pickBest_CaseSensitive(hits, row) ==
  LET expectedState == toLowerCase(trim(row.StateRegion))
      exact(h) == /\ h.country = trim(row.Country)
                  /\ (expectedState = Empty \/ toLowerCase(h.admin1) = expectedState)
      sameCountry(h) == h.country = trim(row.Country)
      e == firstIndex({k \in 1..Len(hits) : exact(hits[k])})
      c == firstIndex({k \in 1..Len(hits) : sameCountry(hits[k])})
  IN IF e # 0 THEN hits[e] ELSE IF c # 0 THEN hits[c] ELSE hits[1]

\* The hit geocodeWithFallback returns for a non-empty list of hits.
pickBest(hits, row) ==
  LET expectedState == toLowerCase(trim(row.StateRegion))
      expectedCountry == toLowerCase(trim(row.Country))
      exact(h) == /\ toLowerCase(h.country) = expectedCountry
                  /\ (expectedState = Empty \/ toLowerCase(h.admin1) = expectedState)
      sameCountry(h) == toLowerCase(h.country) = expectedCountry
      e == firstIndex({k \in 1..Len(hits) : exact(hits[k])})
      c == firstIndex({k \in 1..Len(hits) : sameCountry(hits[k])})
  IN IF e # 0 THEN hits[e] ELSE IF c # 0 THEN hits[c] ELSE hits[1]

(* ------------------------- candidate generation ------------------------ *)

CommaSpace == <<",", Blank>>

RECURSIVE dropEmpty(_)
dropEmpty(qs) ==
  IF qs = Empty THEN Empty
  ELSE IF Head(qs) = Empty THEN dropEmpty(Tail(qs))
  ELSE <<Head(qs)>> \o dropEmpty(Tail(qs))

\* candidatesOf with the bare place name first (a faulty variant).
candidatesOf_PlaceFirst(row) ==
  LET city == normalizePlaceName(row.City)
      state == trim(row.StateRegion)
      countryName == normalizeCountryName(row.Country)
  IN dropEmpty(<<city,
                 joinNonEmpty(<<city, countryName>>, CommaSpace),
                 joinNonEmpty(<<city, state, countryName>>, CommaSpace)>>)

\* The Open-Meteo query strings of geocodeWithFallback, in order.
candidatesOf(row) ==
  LET city == normalizePlaceName(row.City)
      state == trim(row.StateRegion)
      countryName == normalizeCountryName(row.Country)
  IN dropEmpty(<<joinNonEmpty(<<city, state, countryName>>, CommaSpace),
                 joinNonEmpty(<<city, countryName>>, CommaSpace),
                 city>>)

\* fallbackQueriesOf with the bare place name as a third query (a faulty
\* variant).
fallbackQueriesOf_WithPlace(row) ==
  LET city == normalizePlaceName(row.City)
      state == trim(row.StateRegion)
      countryName == normalizeCountryName(row.Country)
  IN <<joinNonEmpty(<<city, state, countryName>>, CommaSpace),
       joinNonEmpty(<<city, countryName>>, CommaSpace),
       city>>

\* The Nominatim query strings of geocodeWithFallback, in order.
fallbackQueriesOf(row) ==
  LET city == normalizePlaceName(row.City)
      state == trim(row.StateRegion)
      countryName == normalizeCountryName(row.Country)
  IN <<joinNonEmpty(<<city, state, countryName>>, CommaSpace),
       joinNonEmpty(<<city, countryName>>, CommaSpace)>>

\* triesOf with the unfiltered try first (a faulty variant).
triesOf_UnfilteredFirst(row) ==
  LET iso2 == countryToISO2(normalizeCountryName(row.Country))
  IN IF iso2 # Empty THEN <<Empty, iso2>> ELSE <<Empty>>

\* triesOf without the unfiltered second try (a faulty variant).
triesOf_FilteredOnly(row) ==
  LET iso2 == countryToISO2(normalizeCountryName(row.Country))
  IN IF iso2 # Empty THEN <<iso2>> ELSE <<Empty>>

\* The country filters tried for one candidate: the ISO code first, if known.
triesOf(row) ==
  LET iso2 == countryToISO2(normalizeCountryName(row.Country))
  IN IF iso2 # Empty THEN <<iso2, Empty>> ELSE <<Empty>>

(* ------------------------------ inputs --------------------------------- *)

Line(name, city, state, country, lat, lng) ==
  [ChapterName |-> name, City |-> city, StateRegion |-> state, Country |-> country,
   LatOverride |-> lat, LngOverride |-> lng]

MtPleasant == <<"Mt", Blank, "Pleasant">>

\* The data lines an input table of the batch run is drawn from.
Lines ==
  { Line(<<"Alpha">>, MtPleasant, <<"Michigan">>, <<"USA">>, Empty, Empty),
    Line(<<"Beta">>, MtPleasant, <<"Michigan">>, <<"USA">>, <<"40.0">>, <<"-75.0">>),
    Line(<<"Gamma">>, Empty, <<"Michigan">>, <<"USA">>, Empty, Empty),
    Line(<<"Delta">>, <<"Michigan">>, Empty, <<"US">>, <<"0">>, Empty),
    Line(<<"Epsilon">>, <<"Paris", Blank, "Station">>, Empty, <<Blank, "France">>,
         Empty, Empty),
    Line(<<"Zeta">>, <<"Pleasant">>, <<"Michigan">>, Empty, Empty, Empty),
    Line(<<"Eta">>, Empty, Empty, Empty, Empty, Empty) }

\* All tables of 1..n lines.
Tables(n) == UNION {[1..m -> Lines] : m \in 1..n}

\* The header line of a well-formed chapters.csv.
FullHeader ==
  <<"ChapterName", "City", "StateRegion", "Country", "LatOverride", "LngOverride">>

\* Header lines that lack one required column each (names are matched with
\* their exact spelling).
ShortHeaders ==
  { <<"Name", "City", "StateRegion", "Country">>,
    <<"ChapterName", "city", "StateRegion", "Country">>,
    <<"ChapterName", "City", "Country">>,
    <<"ChapterName", "City", "StateRegion", "LatOverride", "LngOverride">> }

Coords(lat, lng) == [lat |-> lat, lng |-> lng]

\* The cache files a run can start from: none yet, or one written by an
\* earlier run that resolved Mt Pleasant.
CacheFiles ==
  { Empty,
    (<<"mt", Blank, "pleasant", "|", "michigan", "|", "united", Blank, "states">>
       :> Coords("43.6", "-84.7")) }

(* ------------------------------- state --------------------------------- *)

VARIABLES
  csvExists,  \* whether data/chapters.csv exists
  header,     \* its header line, split at the commas; empty in an empty file
  csv,        \* the data lines of data/chapters.csv
  cacheFile,  \* data/geocode-cache.json
  outFile,    \* data/chapters.json: [written, data]
  pc,         \* where main stands
  rows,       \* main: the parsed rows
  cache,      \* main: the in-memory cache
  output,     \* main: the output array
  i,          \* main: the loop index (0-based)
  cacheHits, apiCalls, failures,  \* main: the summary counters
  ci, ti, fq, \* geocodeWithFallback: candidate, try and fallback-query index
  trace,      \* history: the provider requests and the sleeps of this run, in order
  run,        \* history: 1 in the first run, 2 in a second run on its files
  output1,    \* history: the output array of the first run
  thrown,     \* history: the errors that reached main's catch in this run
  fnIn, fnOut \* argument and result of a function applied on its own

mainVars == <<rows, cache, output, i, cacheHits, apiCalls, failures>>
geoVars == <<ci, ti, fq>>
fileVars == <<csvExists, header, csv, cacheFile, outFile>>
histVars == <<run, output1, thrown>>
fnVars == <<fnIn, fnOut>>
vars == <<csvExists, header, csv, cacheFile, outFile, pc, rows, cache, output, i, cacheHits, apiCalls,
          failures, ci, ti, fq, trace, run, output1, thrown, fnIn, fnOut>>

REQUEST_DELAY_MS == 600
NOMINATIM_DELAY_MS == 900

Request(provider, q, iso2) ==
  [kind |-> "request", row |-> i + 1, run |-> run, provider |-> provider,
   q |-> q, iso2 |-> iso2, ms |-> 0, answer |-> ""]

Sleep(ms) ==
  [kind |-> "sleep", row |-> i + 1, run |-> run, provider |-> "", q |-> Empty,
   iso2 |-> Empty, ms |-> ms, answer |-> ""]

\* The request r as the history keeps it once it is answered: with "hits" (a
\* result is returned), "none" (no usable hit) or "error" (an error is thrown).
Answered(r, a) == [r EXCEPT !.answer = a]

row == rows[i + 1]
key == makeCacheKey(row)

\* baseOut with the 0-based loop index as id (a faulty variant of OutRecord).
OutRecord_ZeroBasedId(r, id, lat, lng, note) ==
  [id |-> id - 1, chapterName |-> r.ChapterName, city |-> r.City,
   stateRegion |-> r.StateRegion, country |-> r.Country,
   lat |-> lat, lng |-> lng, geocodeNote |-> note]

\* baseOut carrying the place name as it is sent to the providers (a faulty
\* variant of OutRecord).
OutRecord_NormalizedCity(r, id, lat, lng, note) ==
  [id |-> id, chapterName |-> r.ChapterName, city |-> normalizePlaceName(r.City),
   stateRegion |-> r.StateRegion, country |-> r.Country,
   lat |-> lat, lng |-> lng, geocodeNote |-> note]

\* { ...baseOut, lat, lng, geocodeNote }
OutRecord(r, id, lat, lng, note) ==
  [id |-> id, chapterName |-> r.ChapterName, city |-> r.City,
   stateRegion |-> r.StateRegion, country |-> r.Country,
   lat |-> lat, lng |-> lng, geocodeNote |-> note]

\* The process before main has run: nothing in memory, no output file.
IdleMain ==
  /\ outFile = [written |-> FALSE, data |-> Empty]
  /\ rows = Empty /\ cache = Empty /\ output = Empty /\ i = 0
  /\ cacheHits = 0 /\ apiCalls = 0 /\ failures = 0
  /\ ci = 0 /\ ti = 0 /\ fq = 0
  /\ trace = Empty
  /\ run = 1 /\ output1 = Empty /\ thrown = Empty

InitMain ==
  /\ pc = "start"
  /\ IdleMain
  /\ fnIn = Empty /\ fnOut = Empty

\* A well-formed chapters.csv of up to n data lines drawn from L.
GoodCsv(L, n) ==
  /\ csvExists = TRUE
  /\ header = FullHeader
  /\ csv \in UNION {[1..m -> L] : m \in 1..n}

\* chapters.csv is absent, holds no non-blank line, or has a header line
\* that lacks a required column above one data line.
BadCsv ==
  \/ csvExists = FALSE /\ header = Empty /\ csv = Empty
  \/ csvExists = TRUE /\ header = Empty /\ csv = Empty
  \/ csvExists = TRUE /\ header \in ShortHeaders /\ csv \in Tables(1)

Init ==
  /\ GoodCsv(Lines, MaxRows) \/ BadCsv
  /\ cacheFile \in CacheFiles
  /\ InitMain

(* ------------------------------- main ---------------------------------- *)

\* main, up to the loop: parse the table, load the cache.
\* The error leaves main: main().catch logs it and calls process.exit(1).
Exit1 ==
  /\ pc' = "failed"
  /\ UNCHANGED <<fileVars, mainVars, geoVars, trace, histVars, fnVars>>

\* if (!fs.existsSync(CSV_PATH)) throw ...
CsvNotFound ==
  /\ pc = "start"
  /\ ~csvExists
  /\ Exit1

\* parseCsv: if (lines.length === 0) throw ...
CsvEmpty ==
  /\ pc = "start"
  /\ csvExists /\ header = Empty
  /\ Exit1

\* parseCsv: a required column is not in the header.
CsvMissingColumn ==
  /\ pc = "start"
  /\ csvExists /\ header # Empty /\ ~hasRequired(header)
  /\ Exit1

Setup ==
  /\ pc = "start"
  /\ csvExists /\ header # Empty /\ hasRequired(header)
  /\ rows' = parseCsv(csv)
  /\ cache' = cacheFile
  /\ output' = Empty
  /\ i' = 0 /\ cacheHits' = 0 /\ apiCalls' = 0 /\ failures' = 0
  /\ pc' = "loop"
  /\ UNCHANGED <<fileVars, geoVars, trace, histVars, fnVars>>

\* if (!key) { ...; continue; }
RowMissingKey ==
  /\ pc = "loop" /\ i < Len(rows)
  /\ key = Empty
  /\ failures' = failures + 1
  /\ output' = Append(output, OutRecord(row, i + 1, Null, Null, "missing location data"))
  /\ i' = i + 1
  /\ UNCHANGED <<fileVars, pc, rows, cache, cacheHits, apiCalls, geoVars, trace,
                 histVars, fnVars>>

\* RowCacheHit pushing the cached latitude as both coordinates (a faulty variant).
RowCacheHit_LatTwice ==
  /\ pc = "loop" /\ i < Len(rows)
  /\ key # Empty /\ key \in DOMAIN cache
  /\ cacheHits' = cacheHits + 1
  /\ output' = Append(output, OutRecord(row, i + 1, cache[key].lat, cache[key].lat, "cache"))
  /\ i' = i + 1
  /\ UNCHANGED <<fileVars, pc, rows, cache, failures, apiCalls, geoVars, trace,
                 histVars, fnVars>>

\* if (cache[key]) { ...; continue; }
RowCacheHit ==
  /\ pc = "loop" /\ i < Len(rows)
  /\ key # Empty /\ key \in DOMAIN cache
  /\ cacheHits' = cacheHits + 1
  /\ output' = Append(output, OutRecord(row, i + 1, cache[key].lat, cache[key].lng, "cache"))
  /\ i' = i + 1
  /\ UNCHANGED <<fileVars, pc, rows, cache, failures, apiCalls, geoVars, trace,
                 histVars, fnVars>>

\* geocodeWithFallback returns null at once: no city or no country.
GeocodeNoQuery ==
  /\ pc = "loop" /\ i < Len(rows)
  /\ key # Empty /\ key \notin DOMAIN cache
  /\ normalizePlaceName(row.City) = Empty \/ normalizeCountryName(row.Country) = Empty
  /\ apiCalls' = apiCalls + 1
  /\ failures' = failures + 1
  /\ output' = Append(output, OutRecord(row, i + 1, Null, Null, "not found"))
  /\ pc' = "sleep"
  /\ UNCHANGED <<fileVars, rows, cache, i, cacheHits, geoVars, trace, histVars, fnVars>>

\* geocodeWithFallback builds its candidates and enters the Open-Meteo loop.
GeocodeBegin ==
  /\ pc = "loop" /\ i < Len(rows)
  /\ key # Empty /\ key \notin DOMAIN cache
  /\ normalizePlaceName(row.City) # Empty /\ normalizeCountryName(row.Country) # Empty
  /\ apiCalls' = apiCalls + 1
  /\ ci' = 1 /\ ti' = 1 /\ fq' = 0
  /\ pc' = "primary"
  /\ UNCHANGED <<fileVars, rows, cache, output, i, cacheHits, failures, trace,
                 histVars, fnVars>>

\* An error thrown while row i + 1 is geocoded, as the history keeps it.
Thrown(message) == [row |-> i + 1, message |-> message]

\* main without its try/catch: the error leaves main and ends the process
\* (a faulty variant of Caught).
Caught_Uncaught(message, tr) ==
  /\ thrown' = Append(thrown, Thrown(message))
  /\ trace' = tr
  /\ pc' = "failed"
  /\ UNCHANGED <<fileVars, mainVars, geoVars, run, output1, fnVars>>

\* The catch block of main: err.message goes into the note.
Caught(message, tr) ==
  /\ failures' = failures + 1
  /\ output' = Append(output, OutRecord(row, i + 1, Null, Null, "error: " \o message))
  /\ thrown' = Append(thrown, Thrown(message))
  /\ trace' = tr
  /\ pc' = "sleep"
  /\ UNCHANGED <<fileVars, rows, cache, i, cacheHits, apiCalls, geoVars, run, output1,
                 fnVars>>

\* Resolved reading a longitude field the result does not have (a faulty variant).
Resolved_NoLng(lat, lng, source, tr) ==
  /\ cache' = (key :> Coords(lat, lng)) @@ cache
  /\ output' = Append(output, OutRecord(row, i + 1, lat, Null, source))
  /\ trace' = tr
  /\ pc' = "sleep"
  /\ UNCHANGED <<fileVars, rows, i, cacheHits, apiCalls, failures, geoVars, histVars, fnVars>>

\* Resolved without the assignment to cache[key] (a faulty variant).
Resolved_NotCached(lat, lng, source, tr) ==
  /\ output' = Append(output, OutRecord(row, i + 1, lat, lng, source))
  /\ trace' = tr
  /\ pc' = "sleep"
  /\ UNCHANGED <<fileVars, rows, cache, i, cacheHits, apiCalls, failures, geoVars, histVars,
                 fnVars>>

\* Resolved that stores the coordinates in the cache with latitude and
\* longitude exchanged (a faulty variant).
Resolved_CacheSwapped(lat, lng, source, tr) ==
  /\ cache' = (key :> Coords(lng, lat)) @@ cache
  /\ output' = Append(output, OutRecord(row, i + 1, lat, lng, source))
  /\ trace' = tr
  /\ pc' = "sleep"
  /\ UNCHANGED <<fileVars, rows, i, cacheHits, apiCalls, failures, geoVars, histVars, fnVars>>

\* A result returned to main: cache it and push the record.
Resolved(lat, lng, source, tr) ==
  /\ cache' = (key :> Coords(lat, lng)) @@ cache
  /\ output' = Append(output, OutRecord(row, i + 1, lat, lng, source))
  /\ trace' = tr
  /\ pc' = "sleep"
  /\ UNCHANGED <<fileVars, rows, i, cacheHits, apiCalls, failures, geoVars, histVars, fnVars>>

\* NotFound that stores the missing coordinates under the row's key (a faulty
\* variant).
NotFound_Cached(tr) ==
  /\ failures' = failures + 1
  /\ cache' = (key :> Coords(Null, Null)) @@ cache
  /\ output' = Append(output, OutRecord(row, i + 1, Null, Null, "not found"))
  /\ trace' = tr
  /\ pc' = "sleep"
  /\ UNCHANGED <<fileVars, rows, i, cacheHits, apiCalls, geoVars, histVars, fnVars>>

\* geocodeWithFallback returned null after its queries.
NotFound(tr) ==
  /\ failures' = failures + 1
  /\ output' = Append(output, OutRecord(row, i + 1, Null, Null, "not found"))
  /\ trace' = tr
  /\ pc' = "sleep"
  /\ UNCHANGED <<fileVars, rows, cache, i, cacheHits, apiCalls, geoVars, histVars, fnVars>>

openMeteoRequest == Request("open-meteo", candidatesOf(row)[ci], triesOf(row)[ti])

\* openMeteoSearch: the response is not ok, the error reaches main's catch.
OpenMeteoHttpError ==
  /\ pc = "primary"
  /\ Caught("Open-Meteo error 500: ", Append(trace, Answered(openMeteoRequest, "error")))

\* openMeteoSearch returns hits: the best one is the result.
OpenMeteoHits ==
  /\ pc = "primary"
  /\ \E results \in OpenMeteoResults :
       LET hits == openMeteoHits(results)
           best == pickBest(hits, row)
       IN /\ hits # Empty
          /\ Resolved(best.lat, best.lng, "open-meteo",
                      Append(trace, Answered(openMeteoRequest, "hits")))

\* openMeteoSearch returns no hit: next try, next candidate, or the fallback.
OpenMeteoNoHits ==
  /\ pc = "primary"
  /\ \E results \in OpenMeteoResults : openMeteoHits(results) = Empty
  /\ trace' = Append(trace, Answered(openMeteoRequest, "none"))
  /\ IF ti < Len(triesOf(row)) THEN ti' = ti + 1 /\ UNCHANGED <<ci, pc>>
     ELSE IF ci < Len(candidatesOf(row)) THEN ci' = ci + 1 /\ ti' = 1 /\ UNCHANGED pc
     ELSE pc' = "nominatimDelay" /\ UNCHANGED <<ci, ti>>
  /\ UNCHANGED <<fileVars, mainVars, fq, histVars, fnVars>>

\* await sleep(NOMINATIM_DELAY_MS)
NominatimDelay ==
  /\ pc = "nominatimDelay"
  /\ trace' = Append(trace, Sleep(NOMINATIM_DELAY_MS))
  /\ fq' = 1
  /\ pc' = "fallback"
  /\ UNCHANGED <<fileVars, mainVars, ci, ti, histVars, fnVars>>

nominatimRequest == Request("nominatim", fallbackQueriesOf(row)[fq], Empty)

NominatimHttpError ==
  /\ pc = "fallback"
  /\ Caught("Nominatim error 500: ", Append(trace, Answered(nominatimRequest, "error")))

\* NominatimHit returning the source of the Open-Meteo branch (a faulty variant).
NominatimHit_SourceOpenMeteo ==
  /\ pc = "fallback"
  /\ \E data \in NominatimResults :
       LET r == nominatimHit(data)
       IN /\ r # Empty
          /\ Resolved(r[1].lat, r[1].lng, "open-meteo",
                      Append(trace, Answered(nominatimRequest, "hits")))

\* geocodeNominatim returns a hit: it is the result.
NominatimHit ==
  /\ pc = "fallback"
  /\ \E data \in NominatimResults :
       LET r == nominatimHit(data)
       IN /\ r # Empty
          /\ Resolved(r[1].lat, r[1].lng, "nominatim",
                      Append(trace, Answered(nominatimRequest, "hits")))

NominatimNoHit ==
  /\ pc = "fallback"
  /\ \E data \in NominatimResults : nominatimHit(data) = Empty
  /\ IF fq < Len(fallbackQueriesOf(row))
     THEN /\ fq' = fq + 1
          /\ trace' = Append(trace, Answered(nominatimRequest, "none"))
          /\ UNCHANGED <<fileVars, mainVars, ci, ti, pc, histVars, fnVars>>
     ELSE NotFound(Append(trace, Answered(nominatimRequest, "none")))

\* await sleep(REQUEST_DELAY_MS) at the end of the loop body.
RowSleep ==
  /\ pc = "sleep"
  /\ trace' = Append(trace, Sleep(REQUEST_DELAY_MS))
  /\ i' = i + 1
  /\ pc' = "loop"
  /\ UNCHANGED <<fileVars, rows, cache, output, cacheHits, apiCalls, failures, geoVars,
                 histVars, fnVars>>

\* SaveCache that writes only the entries added in this run (a faulty variant).
SaveCache_OnlyNew ==
  /\ pc = "loop" /\ i >= Len(rows)
  /\ cacheFile' = [k \in (DOMAIN cache) \ (DOMAIN cacheFile) |-> cache[k]]
  /\ pc' = "saveOutput"
  /\ UNCHANGED <<csvExists, header, csv, outFile, mainVars, geoVars, trace, histVars, fnVars>>

\* SaveCache that never writes the cache back (a faulty variant).
SaveCache_NotWritten ==
  /\ pc = "loop" /\ i >= Len(rows)
  /\ pc' = "saveOutput"
  /\ UNCHANGED <<fileVars, mainVars, geoVars, trace, histVars, fnVars>>

\* The loop ends; saveJson(CACHE_PATH, cache).
SaveCache ==
  /\ pc = "loop" /\ i >= Len(rows)
  /\ cacheFile' = cache
  /\ pc' = "saveOutput"
  /\ UNCHANGED <<csvExists, header, csv, outFile, mainVars, geoVars, trace, histVars, fnVars>>

\* saveJson(OUT_JSON_PATH, output), then the summary.
SaveOutput ==
  /\ pc = "saveOutput"
  /\ outFile' = [written |-> TRUE, data |-> output]
  /\ pc' = "done"
  /\ UNCHANGED <<csvExists, header, csv, cacheFile, mainVars, geoVars, trace, histVars,
                 fnVars>>

Next ==
  \/ CsvNotFound
  \/ CsvEmpty
  \/ CsvMissingColumn
  \/ Setup
  \/ RowMissingKey
  \/ RowCacheHit
  \/ GeocodeNoQuery
  \/ GeocodeBegin
  \/ OpenMeteoHttpError
  \/ OpenMeteoHits
  \/ OpenMeteoNoHits
  \/ NominatimDelay
  \/ NominatimHttpError
  \/ NominatimHit
  \/ NominatimNoHit
  \/ RowSleep
  \/ SaveCache
  \/ SaveOutput

Spec == Init /\ [][Next]_vars

(* ----------------------------- second run ------------------------------ *)

\* The script is started again on the same table and the files the first
\* run left.
Rerun ==
  /\ pc = "done" /\ run = 1
  /\ run' = 2
  /\ output1' = output
  /\ thrown' = Empty
  /\ pc' = "start"
  /\ rows' = Empty /\ cache' = Empty /\ output' = Empty /\ i' = 0
  /\ cacheHits' = 0 /\ apiCalls' = 0 /\ failures' = 0
  /\ ci' = 0 /\ ti' = 0 /\ fq' = 0
  /\ trace' = Empty
  /\ UNCHANGED <<fileVars, fnVars>>

InitRerun ==
  /\ GoodCsv(Lines, MaxRowsRerun) \/ BadCsv
  /\ cacheFile \in CacheFiles
  /\ InitMain

NextRerun == Next \/ Rerun

SpecRerun == InitRerun /\ [][NextRerun]_vars

(* ------------------- requests that fail with an error ------------------- *)

\* err.message of a rejected fetch and of a body res.json() cannot parse.
FetchFailed == "fetch failed"
BadJson == "Unexpected token < in JSON at position 0"

\* openMeteoSearch: fetch rejects (no connection).
OpenMeteoFetchFails ==
  /\ pc = "primary"
  /\ Caught(FetchFailed, Append(trace, Answered(openMeteoRequest, "error")))

\* openMeteoSearch: the response is ok but res.json() throws.
OpenMeteoBadBody ==
  /\ pc = "primary"
  /\ Caught(BadJson, Append(trace, Answered(openMeteoRequest, "error")))

\* geocodeNominatim: fetch rejects.
NominatimFetchFails ==
  /\ pc = "fallback"
  /\ Caught(FetchFailed, Append(trace, Answered(nominatimRequest, "error")))

\* geocodeNominatim: the response is ok but res.json() throws.
NominatimBadBody ==
  /\ pc = "fallback"
  /\ Caught(BadJson, Append(trace, Answered(nominatimRequest, "error")))

\* The data lines of the runs in which requests can fail in every way: a row
\* that is queried, a row that is not, and a row without location data.
FaultLines == {l \in Lines : l.ChapterName \in {<<"Epsilon">>, <<"Gamma">>, <<"Eta">>}}

InitFaults ==
  /\ GoodCsv(FaultLines, MaxRows) \/ BadCsv
  /\ cacheFile \in CacheFiles
  /\ InitMain

NextFaults ==
  \/ Next
  \/ OpenMeteoFetchFails
  \/ OpenMeteoBadBody
  \/ NominatimFetchFails
  \/ NominatimBadBody

SpecFaults == InitFaults /\ [][NextFaults]_vars

(* ------------------ the batch run on the queried rows ------------------- *)

\* The data lines of the runs whose request sequences are examined: a row
\* with a region in a country with a code, a row without a region in a
\* country without a code, a row that is not queried and a row without
\* location data.
QueryLines ==
  {l \in Lines : l.ChapterName \in {<<"Alpha">>, <<"Epsilon">>, <<"Gamma">>, <<"Eta">>}}

InitQueries ==
  /\ GoodCsv(QueryLines, MaxRows) \/ BadCsv
  /\ cacheFile \in CacheFiles
  /\ InitMain

SpecQueries == InitQueries /\ [][Next]_vars

(* ----------------------- makeCacheKey on its own ------------------------ *)

Cook == <<"Cook">>
Michigan == <<"Michigan">>

KeyCities ==
  { Empty, Cook, <<"COOK">>, <<Blank, "Cook">>,
    <<"Cook", Blank, "County">>, <<"County", Blank, "Cook">>,
    <<"Cook", Blank, "Station">>, <<"Cook", Blank, "COUNTY", Blank, "Station">>,
    MtPleasant, <<"Mount", Blank, "Pleasant">>, <<"MT", Blank, "Pleasant">>,
    <<"St", Blank, "Louis">>, <<"Saint", Blank, "Louis">>, <<"Saint", Blank, "LOUIS">>,
    <<"Washington">> }

KeyStates == { Empty, Michigan, <<"MICHIGAN", Blank>>, <<"Washington">> }

KeyCountries ==
  { Empty, <<"USA">>, <<"Usa">>, <<"US">>, <<"U.S.">>, <<"U.S.A.">>, UnitedStates,
    <<"UNITED", Blank, "STATES">>, <<Blank, "USA">>,
    <<"UK">>, <<"U.K.">>, UnitedKingdom, <<"France">> }

\* The data lines makeCacheKey is applied to.
KeyLines ==
  {Line(<<"Alpha">>, c, Michigan, <<"USA">>, Empty, Empty) : c \in KeyCities}
  \cup {Line(<<"Alpha">>, Cook, st, co, Empty, Empty) : st \in KeyStates, co \in KeyCountries}
  \cup {Line(<<"Beta">>, Cook, Michigan, <<"USA">>, <<"40.0">>, <<"-75.0">>)}
  \cup {Line(<<"Gamma">>, <<"Washington">>, Empty, <<"USA">>, Empty, Empty),
        Line(<<"Delta">>, Empty, <<"Washington">>, <<"USA">>, Empty, Empty)}

InitKey ==
  /\ pc = "key"
  /\ fnIn \in KeyLines \X KeyLines
  /\ fnOut = Empty
  /\ csvExists = FALSE /\ header = Empty /\ csv = Empty /\ cacheFile = Empty
  /\ IdleMain

\* main's `makeCacheKey(row)` for two parsed lines.
ApplyKey ==
  /\ pc = "key"
  /\ fnOut' = <<makeCacheKey(parseLine(fnIn[1])), makeCacheKey(parseLine(fnIn[2]))>>
  /\ pc' = "keyed"
  /\ UNCHANGED <<fileVars, mainVars, geoVars, trace, histVars, fnIn>>

NextKey == ApplyKey

SpecKey == InitKey /\ [][NextKey]_vars

(* ---------------------- the hit selection on its own -------------------- *)

rawMIUpper == [latitude |-> "40.0", longitude |-> "-75.0",
               country |-> <<"UNITED", Blank, "STATES">>, admin1 |-> <<"MICHIGAN">>]
rawON == [latitude |-> "48.8", longitude |-> "2.3",
          country |-> <<"Canada">>, admin1 |-> <<"Ontario">>]

\* A hit whose latitude is the JSON value null.
rawNull == [latitude |-> Null, longitude |-> "-84.7",
            country |-> UnitedStates, admin1 |-> <<"Michigan">>]

HitPool == {rawNC, rawMI, rawMIUpper, rawON, rawBad, rawNull}

\* All `results` arrays of up to n entries.
ResultLists(n) == UNION {[1..m -> HitPool] : m \in 0..n}

SelectLines ==
  { Line(<<"Alpha">>, MtPleasant, Michigan, <<"USA">>, Empty, Empty),
    Line(<<"Alpha">>, MtPleasant, <<"MICHIGAN", Blank>>, UnitedStates, Empty, Empty),
    Line(<<"Delta">>, Michigan, Empty, <<"US">>, Empty, Empty),
    Line(<<"Epsilon">>, <<"Paris">>, Empty, <<"France">>, Empty, Empty),
    Line(<<"Theta">>, Cook, <<"Ontario">>, <<"Canada">>, Empty, Empty),
    Line(<<"Iota">>, <<"Sanford">>, <<"Carolina">>, <<"USA">>, Empty, Empty) }

InitSelect ==
  /\ pc = "select"
  /\ fnIn \in SelectLines \X ResultLists(MaxHits)
  /\ fnOut = Empty
  /\ csvExists = FALSE /\ header = Empty /\ csv = Empty /\ cacheFile = Empty
  /\ IdleMain

\* One pass of the Open-Meteo loop body on a success response: the hits of
\* openMeteoSearch and, if there are any, the hit whose coordinates are
\* returned.  fnOut is empty when the loop goes on to the next try.
ApplySelect ==
  /\ pc = "select"
  /\ LET hits == openMeteoHits(fnIn[2])
     IN fnOut' = IF hits = Empty THEN Empty ELSE <<pickBest(hits, parseLine(fnIn[1]))>>
  /\ pc' = "selected"
  /\ UNCHANGED <<fileVars, mainVars, geoVars, trace, histVars, fnIn>>

NextSelect == ApplySelect

SpecSelect == InitSelect /\ [][NextSelect]_vars

(* ------------------------------ claims --------------------------------- *)

\* s without its leading and trailing blanks.
Stripped(s) ==
  LET nb == {k \in 1..Len(s) : s[k] # Blank}
  IN IF nb = {} THEN Empty
     ELSE SubSeq(s, CHOOSE k \in nb : \A m \in nb : k <= m,
                    CHOOSE k \in nb : \A m \in nb : k >= m)

\* s and t are the same text up to letter case.
SameIgnoringCase(s, t) ==
  Len(s) = Len(t) /\ \A k \in 1..Len(s) : LowerTok(s[k]) = LowerTok(t[k])

\* s and t are the same text up to letter case and surrounding blanks.
SameCell(s, t) == SameIgnoringCase(Stripped(s), Stripped(t))

StartsWith(s, p) == Len(s) >= Len(p) /\ SubSeq(s, 1, Len(p)) = p

\* x occurs in y as a run of consecutive tokens.
IsInfix(x, y) == \E k \in 0..(Len(y) - Len(x)) : SubSeq(y, k + 1, k + Len(x)) = x

\* The number of records main has pushed when it stands at pc with index i.
Pushed == IF pc = "start" THEN 0
          ELSE IF pc = "sleep" THEN i + 1
          ELSE i

\* C1: a run over N data rows pushes one record per row, in row order: the
\* k-th record has id k and carries the k-th line's name, city and region,
\* a row being worked on has no record yet, and a completed run has written
\* exactly N records.
C1_OneRecordPerRow ==
  /\ Len(output) = Pushed
  /\ Len(output) <= Len(csv)
  /\ \A k \in 1..Len(output) :
       /\ output[k].id = k
       /\ output[k].chapterName = trim(csv[k].ChapterName)
       /\ output[k].city = trim(csv[k].City)
       /\ output[k].stateRegion = trim(csv[k].StateRegion)
  /\ pc \in {"saveOutput", "done"} => Len(output) = Len(csv)
  /\ pc = "done" => outFile.written /\ outFile.data = output

\* C1 witness: a completed two-row run whose first row ended in an error and
\* whose second row was resolved.
C1_Witness ==
  /\ pc = "done" /\ Len(csv) = 2 /\ Len(outFile.data) = 2
  /\ csv[1] # csv[2]
  /\ outFile.data[1].geocodeNote = "error: Open-Meteo error 500: "
  /\ outFile.data[2].geocodeNote = "nominatim"

\* C2: in every output record, in memory and in the written file, lat is
\* null exactly when lng is null.
C2_LatLngNullTogether ==
  /\ \A k \in 1..Len(output) : (output[k].lat = Null) <=> (output[k].lng = Null)
  /\ \A k \in 1..Len(outFile.data) :
       (outFile.data[k].lat = Null) <=> (outFile.data[k].lng = Null)

\* C2 witness: a written output file holding a record with coordinates and a
\* record without.
C2_Witness ==
  /\ pc = "done"
  /\ \E k \in 1..Len(outFile.data) : outFile.data[k].lat # Null /\ outFile.data[k].lng # Null
  /\ \E k \in 1..Len(outFile.data) : outFile.data[k].lat = Null /\ outFile.data[k].lng = Null

\* The provider requests of run n for the k-th row.
RequestsOf(n, k) ==
  {m \in 1..Len(trace) :
     trace[m].kind = "request" /\ trace[m].run = n /\ trace[m].row = k}

\* C3 as stated: a completed second run has issued no provider request and
\* its output array equals the first run's.
C3_Idempotent ==
  (run = 2 /\ pc = "done") =>
     /\ \A k \in 1..Len(csv) : RequestsOf(2, k) = {}
     /\ output = output1

\* C3 amended: in the second run every row the first run ended with
\* coordinates is output without a provider request, with the same
\* coordinates and the note "cache", and every row the first run ended as
\* missing location data is output unchanged without a request.
C3_RerunServesResolvedRows ==
  run = 2 =>
    \A k \in 1..Len(output) :
       /\ output1[k].lat # Null =>
            /\ RequestsOf(2, k) = {}
            /\ output[k] = [output1[k] EXCEPT !.geocodeNote = "cache"]
       /\ output1[k].geocodeNote = "missing location data" =>
            /\ RequestsOf(2, k) = {}
            /\ output[k] = output1[k]

\* C3 witness: a completed second run that served from the cache a row the
\* first run had resolved through Open-Meteo.
C3_Witness ==
  /\ run = 2 /\ pc = "done"
  /\ \E k \in 1..Len(output) :
       /\ output1[k].geocodeNote = "open-meteo"
       /\ output[k].geocodeNote = "cache"
       /\ output[k].lat = output1[k].lat

\* The line's LatOverride and LngOverride cells both hold a number.
HasOverride(line) ==
  /\ Len(Stripped(line.LatOverride)) = 1 /\ Stripped(line.LatOverride)[1] \in Numerals
  /\ Len(Stripped(line.LngOverride)) = 1 /\ Stripped(line.LngOverride)[1] \in Numerals

\* C4 as stated: a row carrying numeric LatOverride and LngOverride ends with
\* exactly those coordinates and the note "override", without a provider
\* request, and the pair is in the cache under the row's key.
C4_OverridePrecedence ==
  \A k \in 1..Len(output) :
     HasOverride(csv[k]) =>
        /\ output[k].lat = Stripped(csv[k].LatOverride)[1]
        /\ output[k].lng = Stripped(csv[k].LngOverride)[1]
        /\ output[k].geocodeNote = "override"
        /\ RequestsOf(run, k) = {}
        /\ makeCacheKey(rows[k]) \in DOMAIN cache
        /\ cache[makeCacheKey(rows[k])] = Coords(output[k].lat, output[k].lng)

\* C5 as stated: a row whose City or Country is empty ends with the
\* missing-data note and null coordinates, without a provider request.
C5_MissingData ==
  \A k \in 1..Len(output) :
     (Stripped(csv[k].City) = Empty \/ Stripped(csv[k].Country) = Empty) =>
        /\ output[k].geocodeNote = "missing location data"
        /\ output[k].lat = Null /\ output[k].lng = Null
        /\ RequestsOf(run, k) = {}

\* The abbreviated and the expanded prefix of a place name.
Abbreviations == {<<"Mt", "Mount">>, <<"St", "Saint">>}

\* t is s with its leading "Mt " or "St " spelled out, up to letter case.
ExpandsTo(s, t) ==
  \E ab \in Abbreviations :
     /\ StartsWith(toLowerCase(Stripped(s)), toLowerCase(<<ab[1], Blank>>))
     /\ SameIgnoringCase(Stripped(t), <<ab[2]>> \o Tail(Stripped(s)))

AliasClasses ==
  { {<<"USA">>, <<"US">>, <<"U.S.">>, <<"U.S.A.">>, UnitedStates},
    {<<"UK">>, <<"U.K.">>, UnitedKingdom} }

\* s and t name the same country: the same text up to case and surrounding
\* blanks, or two aliases of one country.
SameCountry(s, t) ==
  \/ SameCell(s, t)
  \/ \E cls \in AliasClasses :
        /\ \E u \in cls : SameCell(s, u)
        /\ \E v \in cls : SameCell(t, v)

\* C6 as stated: two lines with the same region and country whose places are
\* the abbreviated and the expanded spelling of one name get the same key.
C6_AbbreviationSameKey ==
  (/\ pc = "keyed"
   /\ ExpandsTo(fnIn[1].City, fnIn[2].City)
   /\ SameCell(fnIn[1].StateRegion, fnIn[2].StateRegion)
   /\ SameCountry(fnIn[1].Country, fnIn[2].Country))
  => fnOut[1] = fnOut[2]

NoiseWords == {"County", "COUNTY", "Station"}

\* t is s with one noise word, and the blank that sets it apart, put in.
AddsNoise(s, t) ==
  LET x == Stripped(s)
  IN \E k \in 0..Len(x), n \in NoiseWords :
       \E w \in {<<n, Blank>>, <<Blank, n>>} :
          LET y == SubSeq(x, 1, k) \o w \o SubSeq(x, k + 1, Len(x))
          IN /\ \A m \in 1..(Len(y) - 1) : ~(IsWord(y[m]) /\ IsWord(y[m + 1]))
             /\ SameCell(t, y)

\* s and t name the same place: the same text up to case and surrounding
\* blanks, or one is the other with a noise word put in.
SamePlace(s, t) == SameCell(s, t) \/ AddsNoise(s, t) \/ AddsNoise(t, s)

\* C7: two lines that differ only in letter case, surrounding blanks, the
\* alias used for the country, a noise word County or Station in the place,
\* or in columns other than City, StateRegion and Country, get the same key.
C7_EquivalentRowsSameKey ==
  (/\ pc = "keyed"
   /\ SamePlace(fnIn[1].City, fnIn[2].City)
   /\ SameCell(fnIn[1].StateRegion, fnIn[2].StateRegion)
   /\ SameCountry(fnIn[1].Country, fnIn[2].Country))
  => fnOut[1] = fnOut[2]

\* C7 witness: two different lines, one with a noise word, upper case, a
\* padded cell and another alias, keyed alike.
C7_Witness ==
  /\ pc = "keyed"
  /\ fnIn[1] = Line(<<"Alpha">>, Cook, <<"MICHIGAN", Blank>>, <<"U.S.A.">>, Empty, Empty)
  /\ fnIn[2] = Line(<<"Alpha">>, <<"Cook", Blank, "Station">>, Michigan, <<"USA">>, Empty, Empty)
  /\ fnOut[1] = fnOut[2]
  /\ fnOut[1] = <<"cook", "|", "michigan", "|", "united", Blank, "states">>

\* The region and the canonical country a line asks for.
ExpectedRegion(line) == Stripped(line.StateRegion)
ExpectedCountry(line) == normalizeCountryName(line.Country)

\* The hit is in the expected country and region, letter case aside.
ExactMatch(h, line) ==
  /\ SameIgnoringCase(h.country, ExpectedCountry(line))
  /\ SameIgnoringCase(h.admin1, ExpectedRegion(line))

\* C8: when a region is expected and some hit of the response is in the
\* expected country and region, the selected hit is in that country and
\* region, whatever the order of the hits.
C8_RegionStrict ==
  pc = "selected" =>
     LET hits == openMeteoHits(fnIn[2])
     IN (/\ ExpectedRegion(fnIn[1]) # Empty
         /\ \E k \in 1..Len(hits) : ExactMatch(hits[k], fnIn[1]))
        => fnOut # Empty /\ ExactMatch(fnOut[1], fnIn[1])

\* C8 witness: Michigan is expected, the North Carolina hit is listed first
\* and the Michigan hit is the one selected.
C8_Witness ==
  /\ pc = "selected"
  /\ fnIn[1].StateRegion = Michigan
  /\ fnIn[2] = <<rawNC, rawMI>>
  /\ fnOut = <<[lat |-> "43.6", lng |-> "-84.7", country |-> UnitedStates, admin1 |-> Michigan]>>

\* The hit's region matches the expected one: equal, or one contained in
\* the other, letter case aside.
RegionMatches(h, line) ==
  LET a == toLowerCase(h.admin1)
      e == toLowerCase(ExpectedRegion(line))
  IN a = e \/ (a # Empty /\ IsInfix(a, e)) \/ IsInfix(e, a)

\* C9 as stated: when a region is expected and no hit of a non-empty list
\* has a matching region, nothing is selected for that query.
C9_RejectsWrongRegion ==
  pc = "selected" =>
     LET hits == openMeteoHits(fnIn[2])
     IN (/\ ExpectedRegion(fnIn[1]) # Empty
         /\ hits # Empty
         /\ \A k \in 1..Len(hits) : ~RegionMatches(hits[k], fnIn[1]))
        => fnOut = Empty

CountryAliases == {"USA", "Usa", "US", "U.S.", "U.S.A.", "UK", "U.K."}

\* C10 as stated: for a row whose City starts with "Mt " or "St " the query
\* strings of the resolver hold a candidate with the prefix as written and a
\* candidate with the prefix spelled out, and no query string and no
\* expected country holds a country alias.
C10_AbbreviationCandidates ==
  pc = "primary" =>
     LET city == Stripped(csv[i + 1].City)
         cands == candidatesOf(row)
         qs == {cands[k] : k \in 1..Len(cands)}
                 \cup {fallbackQueriesOf(row)[k] : k \in 1..Len(fallbackQueriesOf(row))}
     IN \A ab \in Abbreviations :
          StartsWith(city, <<ab[1], Blank>>) =>
             /\ \E q \in qs : StartsWith(q, <<ab[1], Blank>>)
             /\ \E q \in qs : StartsWith(q, <<ab[2], Blank>>)
             /\ \A q \in qs : \A k \in 1..Len(q) : q[k] \notin CountryAliases
             /\ \A k \in 1..Len(row.Country) : row.Country[k] \notin CountryAliases

\* C11: when main takes up a row whose key is not empty and is in the cache,
\* its step pushes that row's record with the note "cache" and the cached
\* latitude and longitude, sends no provider request (the trace is left as
\* it is), leaves the cache unchanged and goes on to the next row.
C11_CacheHit ==
  [][(/\ pc = "loop" /\ i < Len(rows)
      /\ key # Empty /\ key \in DOMAIN cache)
     => /\ Len(output') = Len(output) + 1
        /\ SubSeq(output', 1, Len(output)) = output
        /\ output'[i + 1].id = i + 1
        /\ output'[i + 1].geocodeNote = "cache"
        /\ output'[i + 1].lat = cache[key].lat
        /\ output'[i + 1].lng = cache[key].lng
        /\ trace' = trace
        /\ cache' = cache
        /\ i' = i + 1 /\ pc' = "loop"]_vars

\* C11 witness: a row served from the entry an earlier row of the same run
\* put in the cache, with no request of its own.
C11_Witness ==
  /\ Len(output) = 2
  /\ output[1].geocodeNote = "open-meteo"
  /\ output[2].geocodeNote = "cache"
  /\ output[2].lat = output[1].lat /\ output[2].lng = output[1].lng
  /\ output[2].lat # output[2].lng
  /\ RequestsOf(run, 2) = {}
  /\ RequestsOf(run, 1) # {}

\* The messages of the errors a provider request can end in.
ErrorMessages ==
  {"Open-Meteo error 500: ", "Nominatim error 500: ", FetchFailed, BadJson}

\* C12: every error a provider request of row k ended in (a non-success
\* status, a failed fetch, a body that cannot be parsed) left row k, after a
\* request of that row, a record with null coordinates and the note
\* "error: " followed by the error's message; main then stands at the sleep
\* that ends row k or further on, never in the failed state, which is
\* entered only before the first row; and a completed run has a record for
\* every row, errored or later, and has written the cache file and the
\* output file.
C12_ErrorContained ==
  /\ \A e \in 1..Len(thrown) :
       LET k == thrown[e].row
       IN /\ k <= Len(output)
          /\ thrown[e].message \in ErrorMessages
          /\ output[k].id = k
          /\ output[k].lat = Null /\ output[k].lng = Null
          /\ output[k].geocodeNote = "error: " \o thrown[e].message
          /\ RequestsOf(run, k) # {}
          /\ (pc = "sleep" /\ i = k - 1) \/ i >= k
  /\ pc = "failed" => thrown = Empty /\ output = Empty /\ trace = Empty
  /\ pc \in {"saveOutput", "done"} => Len(output) = Len(csv)
  /\ pc = "done" =>
       /\ cacheFile = cache
       /\ outFile.written /\ outFile.data = output

\* C12 witness: a completed two-row run whose first row ended in a failed
\* fetch, the second row then being resolved, cached and written.
C12_Witness ==
  /\ pc = "done" /\ Len(csv) = 2 /\ Len(thrown) = 1
  /\ thrown[1].row = 1 /\ thrown[1].message = FetchFailed
  /\ outFile.data[1].geocodeNote = "error: fetch failed"
  /\ outFile.data[1].lat = Null
  /\ outFile.data[2].geocodeNote = "open-meteo"
  /\ DOMAIN cacheFile # {}

\* chapters.csv is missing, is empty, or its header lacks one of the columns
\* ChapterName, City, StateRegion, Country.
UnusableCsv ==
  \/ ~csvExists
  \/ header = Empty
  \/ \E c \in {"ChapterName", "City", "StateRegion", "Country"} :
        \A k \in 1..Len(header) : header[k] # c

\* C13: started on an unusable chapters.csv, main's first step ends the
\* process in failure (exit code 1) with no row parsed, no record pushed, no
\* provider request sent and the cache file and the output file as they
\* were; and the failed process takes no further step.
C13_FatalSetup ==
  [][/\ pc # "failed"
     /\ (pc = "start" /\ UnusableCsv) =>
           /\ pc' = "failed"
           /\ rows' = Empty /\ output' = Empty /\ i' = 0 /\ apiCalls' = 0
           /\ trace' = Empty
           /\ cacheFile' = cacheFile
           /\ outFile' = outFile /\ ~outFile'.written]_vars

\* C13 witness: the process has failed on a table whose header lacks a
\* required column, with a data line unread and a cache file left in place.
C13_Witness ==
  /\ pc = "failed"
  /\ csvExists /\ header = <<"ChapterName", "City", "Country">>
  /\ Len(csv) = 1 /\ csv[1].City # Empty
  /\ DOMAIN cacheFile # {}
  /\ ~outFile.written /\ output = Empty /\ trace = Empty

\* The name the script writes for a country cell: "United States" or "United
\* Kingdom" for their short aliases in any letter case, else the cell with
\* its surrounding blanks removed.
WrittenCountry(cell) ==
  LET t == Stripped(cell)
  IN IF \E a \in {<<"USA">>, <<"US">>, <<"U.S.">>, <<"U.S.A.">>} : SameIgnoringCase(t, a)
     THEN UnitedStates
     ELSE IF \E a \in {<<"UK">>, <<"U.K.">>} : SameIgnoringCase(t, a)
     THEN UnitedKingdom
     ELSE t

\* C14 as stated: in every output record, whatever its note, city,
\* stateRegion and country are the line's cells with their surrounding blanks
\* removed.
C14_RawFieldsKept ==
  \A k \in 1..Len(output) :
     /\ output[k].city = Stripped(csv[k].City)
     /\ output[k].stateRegion = Stripped(csv[k].StateRegion)
     /\ output[k].country = Stripped(csv[k].Country)

\* C14 amended: in every output record, in memory and in the written file,
\* whatever its note, city and stateRegion are the line's cells with their
\* surrounding blanks removed (noise words and letter case kept), and
\* country is the written name of the line's country cell: the canonical
\* name for an alias, the trimmed cell otherwise.
C14_FieldsKeptCountryCanonical ==
  /\ \A k \in 1..Len(output) :
       /\ output[k].city = Stripped(csv[k].City)
       /\ output[k].stateRegion = Stripped(csv[k].StateRegion)
       /\ output[k].country = WrittenCountry(csv[k].Country)
  /\ \A k \in 1..Len(outFile.data) :
       /\ outFile.data[k].city = Stripped(csv[k].City)
       /\ outFile.data[k].stateRegion = Stripped(csv[k].StateRegion)
       /\ outFile.data[k].country = WrittenCountry(csv[k].Country)

\* C14 witness: a written file whose first record, resolved, keeps the noise
\* word of its place and has its padded country trimmed, and whose second
\* record, not found, has the alias USA written as United States.
C14_Witness ==
  /\ pc = "done" /\ Len(outFile.data) = 2
  /\ csv[1].City = <<"Paris", Blank, "Station">> /\ csv[1].Country = <<Blank, "France">>
  /\ outFile.data[1].city = <<"Paris", Blank, "Station">>
  /\ outFile.data[1].country = <<"France">>
  /\ outFile.data[1].geocodeNote = "open-meteo"
  /\ csv[2].Country = <<"USA">>
  /\ outFile.data[2].country = UnitedStates
  /\ outFile.data[2].geocodeNote = "not found"

\* The messages of the errors thrown for a non-success HTTP status.
HttpErrorMessages == {"Open-Meteo error 500: ", "Nominatim error 500: "}

\* The number of requests geocodeWithFallback sends for the k-th row when no
\* query is answered with a hit.
QueriesOf(k) ==
  Len(candidatesOf(rows[k])) * Len(triesOf(rows[k])) + Len(fallbackQueriesOf(rows[k]))

\* C15 as stated: a non-success HTTP status does not end the record, the
\* queries after the failed one are still sent: a record that ended with the
\* note of a non-success status has had every one of its queries sent.
C15_HttpErrorSkipsQuery ==
  \A e \in 1..Len(thrown) :
     LET k == thrown[e].row
     IN (/\ thrown[e].message \in HttpErrorMessages
         /\ k <= Len(output)
         /\ output[k].geocodeNote = "error: " \o thrown[e].message)
        => Cardinality(RequestsOf(run, k)) = QueriesOf(k)

\* The positions in the trace of the requests of this run sent to provider p
\* for the k-th row.
RequestsTo(p, k) == {m \in RequestsOf(run, k) : trace[m].provider = p}

\* C16: every Nominatim request for a row comes after an Open-Meteo request
\* for each candidate of the row with the country code as filter, when the
\* country has one, and one without a filter; all Open-Meteo requests of the
\* row come before it; and the row has then not been, and is not later,
\* resolved by Open-Meteo.
C16_ProviderOrder ==
  \A k \in 1..Len(rows) :
     \A n \in RequestsTo("nominatim", k) :
        LET cands == candidatesOf(rows[k])
            code == countryToISO2(rows[k].Country)
            before == {m \in RequestsTo("open-meteo", k) : m < n}
        IN /\ \A c \in 1..Len(cands) :
                /\ code # Empty =>
                     \E m \in before : trace[m].q = cands[c] /\ trace[m].iso2 = code
                /\ \E m \in before : trace[m].q = cands[c] /\ trace[m].iso2 = Empty
           /\ before = RequestsTo("open-meteo", k)
           /\ k <= Len(output) => output[k].geocodeNote # "open-meteo"

\* C16 witness: a row of a country with a code, resolved by Nominatim after
\* six Open-Meteo requests.
C16_Witness ==
  /\ Len(output) >= 1
  /\ output[1].geocodeNote = "nominatim"
  /\ Cardinality(RequestsTo("open-meteo", 1)) = 6
  /\ Cardinality(RequestsTo("nominatim", 1)) = 1
  /\ \E m \in RequestsTo("open-meteo", 1) : trace[m].iso2 = <<"US">>

\* C17 as stated: no request is ever sent to Nominatim, and a row whose
\* Open-Meteo requests were all sent without a hit ends not found.
C17_SecondaryDisabled ==
  /\ \A m \in 1..Len(trace) : trace[m].kind = "request" => trace[m].provider # "nominatim"
  /\ \A k \in 1..Len(output) :
       Cardinality(RequestsTo("open-meteo", k))
          = Len(candidatesOf(rows[k])) * Len(triesOf(rows[k]))
       => output[k].geocodeNote \in {"not found", "open-meteo"}

\* The query strings sent to provider p for the k-th row, in the order sent.
QueriesSent(p, k) ==
  LET sent == SelectSeq(trace, LAMBDA e : /\ e.kind = "request" /\ e.run = run
                                          /\ e.row = k /\ e.provider = p)
  IN [m \in 1..Len(sent) |-> sent[m].q]

\* s without the entries equal to the entry before them.
RECURSIVE Squeezed(_)
Squeezed(s) ==
  IF Len(s) < 2 THEN s
  ELSE IF s[1] = s[2] THEN Squeezed(Tail(s))
  ELSE <<s[1]>> \o Squeezed(Tail(s))

\* C18 as stated, for the queries: a row that ended not found after its
\* Nominatim queries has been queried there with the strings that were sent
\* to Open-Meteo for it, in the same order.
C18_SecondaryLikePrimary ==
  \A k \in 1..Len(output) :
     (output[k].geocodeNote = "not found" /\ RequestsTo("nominatim", k) # {})
     => Squeezed(QueriesSent("nominatim", k)) = Squeezed(QueriesSent("open-meteo", k))

\* C19 as stated: the candidate strings of a row are pairwise different, and
\* no two requests of a row to one provider carry the same string and the
\* same country filter.
C19_DuplicateFree ==
  /\ pc = "primary" =>
       \A a, b \in 1..Len(candidatesOf(row)) :
          a # b => candidatesOf(row)[a] # candidatesOf(row)[b]
  /\ \A k \in 1..Len(rows) :
       \A m, n \in RequestsOf(run, k) :
          (/\ m # n
           /\ trace[m].provider = trace[n].provider
           /\ trace[m].q = trace[n].q)
          => trace[m].iso2 # trace[n].iso2

\* The number of components of a query string.
Components(q) == 1 + Cardinality({m \in 1..Len(q) : q[m] = ","})

\* Every separator of q stands between two words: q has no empty component
\* and no leading, trailing or doubled separator.
WellSeparated(q) ==
  /\ q # Empty /\ IsWord(q[1]) /\ IsWord(q[Len(q)])
  /\ \A m \in 1..Len(q) :
       q[m] = "," => /\ m > 1 /\ IsWord(q[m - 1])
                     /\ m + 2 <= Len(q) /\ q[m + 1] = Blank /\ IsWord(q[m + 2])

\* s is an initial part of t.
IsPrefix(s, t) == Len(s) <= Len(t) /\ SubSeq(t, 1, Len(s)) = s

\* The requests of this run for the k-th row as <<provider, string, filter>>,
\* in the order sent.
RequestSeq(k) ==
  LET sent == SelectSeq(trace, LAMBDA e : e.kind = "request" /\ e.run = run /\ e.row = k)
  IN [m \in 1..Len(sent) |-> <<sent[m].provider, sent[m].q, sent[m].iso2>>]

\* C20: the strings sent to one provider for a row never gain a component
\* from one request to the next; for a row with a region, "place, region,
\* country" is the first string sent, any "place, country" comes after it and
\* any bare place after a "place, country"; every string sent is well
\* separated; and of two rows with the same line, the requests of one are an
\* initial part of the requests of the other.
C20_CandidateOrder ==
  \A k \in 1..Len(rows) :
     LET place == normalizePlaceName(rows[k].City)
         region == Stripped(csv[k].StateRegion)
         country == rows[k].Country
         q3 == place \o CommaSpace \o region \o CommaSpace \o country
         q2 == place \o CommaSpace \o country
     IN /\ \A p \in {"open-meteo", "nominatim"} :
             LET qs == QueriesSent(p, k)
             IN /\ \A m \in 1..Len(qs) : WellSeparated(qs[m])
                /\ \A m \in 1..(Len(qs) - 1) : Components(qs[m]) >= Components(qs[m + 1])
                /\ region # Empty /\ qs # Empty => qs[1] = q3
                /\ region = Empty /\ qs # Empty => qs[1] = q2
                /\ \A m \in 1..Len(qs) :
                     /\ Components(qs[m]) = 3 => qs[m] = q3 /\ region # Empty
                     /\ Components(qs[m]) = 2 => qs[m] = q2
                     /\ Components(qs[m]) = 1 =>
                          qs[m] = place /\ \E n \in 1..(m - 1) : qs[n] = q2
        /\ \A j \in 1..Len(rows) :
             csv[j] = csv[k] =>
                IsPrefix(RequestSeq(j), RequestSeq(k)) \/ IsPrefix(RequestSeq(k), RequestSeq(j))

\* C20 witness: a row with a region whose three strings were sent to
\* Open-Meteo in order, twice each, and whose first two went to Nominatim.
C20_Witness ==
  /\ Len(output) >= 1
  /\ QueriesSent("open-meteo", 1) =
       << MtPleasant \o CommaSpace \o Michigan \o CommaSpace \o UnitedStates,
          MtPleasant \o CommaSpace \o Michigan \o CommaSpace \o UnitedStates,
          MtPleasant \o CommaSpace \o UnitedStates,
          MtPleasant \o CommaSpace \o UnitedStates,
          MtPleasant, MtPleasant >>
  /\ QueriesSent("nominatim", 1) =
       << MtPleasant \o CommaSpace \o Michigan \o CommaSpace \o UnitedStates,
          MtPleasant \o CommaSpace \o UnitedStates >>

\* C21: a request of a row that was answered with hits is the last request
\* of that row, to either provider; the row's record is pushed with the
\* provider of that request as its note and with coordinates, and the cache
\* holds those coordinates under the row's key.
C21_ShortCircuit ==
  \A k \in 1..Len(rows) :
     \A m \in RequestsOf(run, k) :
        trace[m].answer = "hits" =>
           /\ \A n \in RequestsOf(run, k) : n <= m
           /\ k <= Len(output)
           /\ output[k].geocodeNote = trace[m].provider
           /\ output[k].lat # Null /\ output[k].lng # Null
           /\ makeCacheKey(rows[k]) \in DOMAIN cache
           /\ cache[makeCacheKey(rows[k])] = Coords(output[k].lat, output[k].lng)

\* C21 witness: the first row was resolved by the second Open-Meteo request,
\* nothing more was sent for it, and the second row was resolved by
\* Nominatim.
C21_Witness ==
  /\ Len(output) = 2
  /\ Cardinality(RequestsOf(run, 1)) = 2
  /\ \E m \in RequestsOf(run, 1) : trace[m].answer = "hits" /\ trace[m].provider = "open-meteo"
  /\ candidatesOf(rows[1])[3] # candidatesOf(rows[1])[1]
  /\ output[1].geocodeNote = "open-meteo"
  /\ output[2].geocodeNote = "nominatim"

\* The Open-Meteo requests of this run for the k-th row, in the order sent.
OpenMeteoSent(k) ==
  SelectSeq(trace, LAMBDA e : /\ e.kind = "request" /\ e.run = run
                              /\ e.row = k /\ e.provider = "open-meteo")

\* C22: for a row whose country has an ISO code, the Open-Meteo requests go
\* in pairs per candidate: first the candidate with the code as filter, then,
\* only after that request was answered without a usable hit, the same
\* candidate without a filter; a request answered with hits is the last one,
\* so a filtered match is never passed over for an unfiltered one.  For a
\* row whose country has no code, each candidate is sent once, unfiltered.
C22_FilteredFirst ==
  \A k \in 1..Len(rows) :
     LET sent == OpenMeteoSent(k)
         cands == candidatesOf(rows[k])
         code == countryToISO2(rows[k].Country)
     IN /\ \A m \in 1..Len(sent) :
             /\ sent[m].answer = "hits" => m = Len(sent)
             /\ m > 1 => sent[m - 1].answer = "none"
        /\ code # Empty =>
             /\ Len(sent) <= 2 * Len(cands)
             /\ \A m \in 1..Len(sent) :
                  IF m % 2 = 1
                  THEN sent[m].iso2 = code /\ sent[m].q = cands[(m + 1) \div 2]
                  ELSE sent[m].iso2 = Empty /\ sent[m].q = sent[m - 1].q
        /\ code = Empty =>
             /\ Len(sent) <= Len(cands)
             /\ \A m \in 1..Len(sent) : sent[m].iso2 = Empty /\ sent[m].q = cands[m]

\* C22 witness: the first row, in the United States, was resolved by the
\* unfiltered request that followed a filtered request without hits; the
\* second row, in France, had its three candidates sent unfiltered.
C22_Witness ==
  /\ Len(output) = 2
  /\ Len(OpenMeteoSent(1)) = 2
  /\ OpenMeteoSent(1)[1].iso2 = <<"US">> /\ OpenMeteoSent(1)[1].answer = "none"
  /\ OpenMeteoSent(1)[2].iso2 = Empty /\ OpenMeteoSent(1)[2].answer = "hits"
  /\ OpenMeteoSent(1)[1].q = OpenMeteoSent(1)[2].q
  /\ Len(OpenMeteoSent(2)) = 3
  /\ \A m \in 1..3 : OpenMeteoSent(2)[m].iso2 = Empty

\* C23 as stated: no two provider requests of a run follow each other
\* without a delay between them.
C23_PacedRequests ==
  \A m \in 1..(Len(trace) - 1) :
     trace[m].kind = "request" => trace[m + 1].kind = "sleep"

\* The positions in the trace of the delays of this run taken for the k-th
\* row.
SleepsOf(k) ==
  {m \in 1..Len(trace) : trace[m].kind = "sleep" /\ trace[m].run = run /\ trace[m].row = k}

\* C24 as stated: a row for which no provider request was sent, be it served
\* from the cache or not, has no delay taken for it.
C24_NoPacingWithoutRequest ==
  \A k \in 1..Len(rows) : RequestsOf(run, k) = {} => SleepsOf(k) = {}

\* The record was resolved by a provider in this run.
ResolvedByProvider(r) == r.geocodeNote \in {"open-meteo", "nominatim"}

\* C25: once a row is resolved by a provider, every later row of the run
\* with the same key is pushed with the note "cache" and the same
\* coordinates, without a request; and in the cache file of a completed run
\* the key of every row resolved by a provider, and of every row served from
\* the cache, holds that row's coordinates.
C25_ResolutionsPersisted ==
  /\ \A j, k \in 1..Len(output) :
       (/\ j < k
        /\ ResolvedByProvider(output[j])
        /\ makeCacheKey(rows[j]) = makeCacheKey(rows[k]))
       => /\ output[k].geocodeNote = "cache"
          /\ output[k].lat = output[j].lat /\ output[k].lng = output[j].lng
          /\ RequestsOf(run, k) = {}
  /\ pc = "done" =>
       \A k \in 1..Len(output) :
          (ResolvedByProvider(output[k]) \/ output[k].geocodeNote = "cache")
          => /\ makeCacheKey(rows[k]) \in DOMAIN cacheFile
             /\ cacheFile[makeCacheKey(rows[k])] = Coords(output[k].lat, output[k].lng)

\* C25 witness: a completed run that started without a cache file entry,
\* resolved its first row through Nominatim and served its second row, a
\* different line with the same key, from that entry, which is in the file.
C25_Witness ==
  /\ pc = "done" /\ Len(output) = 2
  /\ csv[1] # csv[2]
  /\ output[1].geocodeNote = "nominatim"
  /\ output[2].geocodeNote = "cache"
  /\ output[2].lat = "48.8"
  /\ DOMAIN cacheFile = {makeCacheKey(rows[2])}
  /\ cacheFile[makeCacheKey(rows[1])] = Coords("48.8", "2.3")

\* The cache key of a record of the output file, from its own fields.
KeyOfRecord(r) ==
  makeCacheKey([City |-> r.city, StateRegion |-> r.stateRegion, Country |-> r.country])

\* C26: the output file is written only after the cache file holds the
\* cache of the run, and whenever the output file holds a record with
\* coordinates, the cache file holds those coordinates under the record's
\* key.
C26_CacheBeforeOutput ==
  /\ pc = "done" => outFile.written
  /\ outFile.written => cacheFile = cache
  /\ \A k \in 1..Len(outFile.data) :
       outFile.data[k].lat # Null =>
          /\ KeyOfRecord(outFile.data[k]) \in DOMAIN cacheFile
          /\ cacheFile[KeyOfRecord(outFile.data[k])]
               = Coords(outFile.data[k].lat, outFile.data[k].lng)

\* C26 witness: between the two writes, the cache file holds an entry
\* resolved in this run and the output file is not yet written.
C26_Witness ==
  /\ pc = "saveOutput"
  /\ ~outFile.written
  /\ Len(output) = 1 /\ output[1].geocodeNote = "open-meteo"
  /\ DOMAIN cacheFile = {makeCacheKey(rows[1])}
  /\ cacheFile[makeCacheKey(rows[1])] = Coords(output[1].lat, output[1].lng)

\* f holds every entry of e, unchanged.
Keeps(f, e) == \A k \in DOMAIN e : k \in DOMAIN f /\ f[k] = e[k]

\* C27: no step removes or changes an entry: the cache main loads is the
\* cache file, every step of the run keeps every entry of the in-memory
\* cache, and every step keeps every entry of the cache file.
C27_NoEviction ==
  [][/\ Keeps(cacheFile', cacheFile)
     /\ pc # "done" => Keeps(cache', cache)
     /\ (pc = "start" /\ pc' = "loop") => cache' = cacheFile]_vars

\* C27 witness: a completed run whose cache file holds the entry it was
\* loaded with, used for a cache hit, next to an entry added in the run.
C27_Witness ==
  /\ pc = "done" /\ Len(output) = 2
  /\ output[1].geocodeNote = "nominatim"
  /\ output[2].geocodeNote = "cache"
  /\ makeCacheKey(rows[1]) # makeCacheKey(rows[2])
  /\ DOMAIN cacheFile = {makeCacheKey(rows[1]), makeCacheKey(rows[2])}
  /\ cacheFile[makeCacheKey(rows[2])] = Coords("43.6", "-84.7")

\* The normalized place, the region and the canonical country of a line,
\* letter case aside.
Triple(line) ==
  << toLowerCase(normalizePlaceName(line.City)),
     toLowerCase(Stripped(line.StateRegion)),
     toLowerCase(normalizeCountryName(line.Country)) >>

\* C28 as stated: two lines whose triples differ get different keys.
C28_KeyUnique ==
  (pc = "keyed" /\ Triple(fnIn[1]) # Triple(fnIn[2])) => fnOut[1] # fnOut[2]

\* The number of provider requests sent in this run.
RequestsSent ==
  Cardinality({m \in 1..Len(trace) : trace[m].kind = "request" /\ trace[m].run = run})

\* C29 as stated: at the end of a run the total is the number of data lines,
\* the cache hits are the records noted "cache", the failures are the
\* records without coordinates, and the API calls are the provider requests
\* sent.
C29_Summary ==
  pc = "done" =>
     /\ Len(rows) = Len(csv)
     /\ cacheHits = Cardinality({k \in 1..Len(output) : output[k].geocodeNote = "cache"})
     /\ failures = Cardinality({k \in 1..Len(output) : output[k].lat = Null})
     /\ apiCalls = RequestsSent

\* C30 as stated, for the body that cannot be parsed: no record ends with
\* the error note of a success response whose body is not JSON.
C30_MalformedIsNoHit ==
  \A k \in 1..Len(output) : output[k].geocodeNote # "error: " \o BadJson

\* The indices of the hits in the expected country, letter case aside.
CountryMatches(hits, line) ==
  {k \in 1..Len(hits) : SameIgnoringCase(hits[k].country, ExpectedCountry(line))}

\* C31: when no region is expected and the response has hits, the selected
\* hit is the first one in the expected country, letter case aside, and the
\* first hit of the response when no hit is in the expected country.
C31_NoRegionSelection ==
  pc = "selected" =>
     LET hits == openMeteoHits(fnIn[2])
         m == CountryMatches(hits, fnIn[1])
     IN (ExpectedRegion(fnIn[1]) = Empty /\ hits # Empty)
        => /\ m # {} => \E k \in m : (\A j \in m : k <= j) /\ fnOut = <<hits[k]>>
           /\ m = {} => fnOut = <<hits[1]>>

\* C31 witness: no region is expected, the Ontario hit is listed first and the
\* hit in the United States, written in capitals, is the one selected.
C31_Witness ==
  /\ pc = "selected"
  /\ fnIn[1].StateRegion = Empty
  /\ fnIn[1].Country = <<"US">>
  /\ fnIn[2] = <<rawON, rawMIUpper>>
  /\ fnOut = <<[lat |-> "40.0", lng |-> "-75.0",
               country |-> <<"UNITED", Blank, "STATES">>, admin1 |-> <<"MICHIGAN">>]>>

\* The hit is in the expected country and its region contains the expected
\* one or is contained in it, letter case aside.
LooseMatch(h, line) ==
  /\ SameIgnoringCase(h.country, ExpectedCountry(line))
  /\ RegionMatches(h, line)

\* C32 as stated: when a region is expected, no hit has exactly that region
\* and some hit in the expected country has a region that contains it or is
\* contained in it, the selected hit is such a hit.
C32_LooseRegionMatch ==
  pc = "selected" =>
     LET hits == openMeteoHits(fnIn[2])
     IN (/\ ExpectedRegion(fnIn[1]) # Empty
         /\ \A k \in 1..Len(hits) : ~SameIgnoringCase(hits[k].admin1, ExpectedRegion(fnIn[1]))
         /\ \E k \in 1..Len(hits) : LooseMatch(hits[k], fnIn[1]))
        => fnOut # Empty /\ LooseMatch(fnOut[1], fnIn[1])

\* C33: a step of the loop that pushes a record without coordinates (missing
\* data, not found or an error) leaves the in-memory cache as it is, and a
\* step of the loop that changes the cache pushes a record resolved by a
\* provider and adds that record's coordinates under its key, a key the cache
\* did not hold, and nothing else.
C33_FailuresLeaveCache ==
  [][pc # "start" =>
       /\ (Len(output') = Len(output) + 1 /\ output'[Len(output')].lat = Null)
          => cache' = cache
       /\ cache' # cache =>
            /\ Len(output') = Len(output) + 1
            /\ LET r == output'[Len(output')]
               IN /\ ResolvedByProvider(r)
                  /\ KeyOfRecord(r) \notin DOMAIN cache
                  /\ cache' = (KeyOfRecord(r) :> Coords(r.lat, r.lng)) @@ cache]_vars

\* C33 witness: the first row ended in an error and left no entry, so the
\* second row, with the same key, was resolved by a provider; the cache holds
\* the second row's entry and no other.
C33_Witness ==
  /\ pc = "sleep" /\ Len(output) = 2
  /\ cacheFile = Empty
  /\ output[1].lat = Null
  /\ output[1].geocodeNote \in {"error: " \o m : m \in ErrorMessages}
  /\ ResolvedByProvider(output[2])
  /\ KeyOfRecord(output[1]) = KeyOfRecord(output[2])
  /\ DOMAIN cache = {KeyOfRecord(output[2])}
  /\ cache[KeyOfRecord(output[2])] = Coords(output[2].lat, output[2].lng)

\* C34: in a completed run every record of the output file with coordinates
\* has a non-empty key under which the cache file holds exactly those
\* coordinates, and two records of the output file with coordinates and the
\* same key have the same coordinates.
C34_OutputAgreesWithCache ==
  pc = "done" =>
     /\ \A k \in 1..Len(outFile.data) :
          LET r == outFile.data[k]
          IN (r.lat # Null \/ r.lng # Null) =>
                /\ KeyOfRecord(r) # Empty
                /\ KeyOfRecord(r) \in DOMAIN cacheFile
                /\ cacheFile[KeyOfRecord(r)].lat = r.lat
                /\ cacheFile[KeyOfRecord(r)].lng = r.lng
     /\ \A j, k \in 1..Len(outFile.data) :
          LET q == outFile.data[j]
              r == outFile.data[k]
          IN (q.lat # Null /\ r.lat # Null /\ KeyOfRecord(q) = KeyOfRecord(r))
             => q.lat = r.lat /\ q.lng = r.lng

\* C34 witness: a completed run whose first record was resolved by Open-Meteo
\* and whose second record, with the same key, was served from the cache; both
\* are in the output file with the coordinates the cache file holds.
C34_Witness ==
  /\ pc = "done" /\ Len(outFile.data) = 2
  /\ outFile.data[1].geocodeNote = "open-meteo"
  /\ outFile.data[2].geocodeNote = "cache"
  /\ KeyOfRecord(outFile.data[1]) = KeyOfRecord(outFile.data[2])
  /\ outFile.data[2].lat = outFile.data[1].lat
  /\ outFile.data[2].lng = outFile.data[1].lng
  /\ cacheFile[KeyOfRecord(outFile.data[2])] = Coords(outFile.data[2].lat, outFile.data[2].lng)

\* The most requests one record can need: three candidates with two tries
\* each, and two fallback queries.
MaxRequests == 3 * 2 + 2

\* An upper bound of the number of steps a run can still take: for the row in
\* hand the requests, the delay before the fallback and the sleep that can
\* still follow, for every later row a full search, and the two writes.
StepsLeft ==
  LET perRow == MaxRequests + 4
      later == perRow * (Len(rows) - i - 1) + 2
  IN CASE pc = "start" -> perRow * Len(csv) + 3
       [] pc = "loop" -> perRow * (Len(rows) - i) + 2
       [] pc = "primary" -> later + 4 + 2 * (3 - ci) + (3 - ti)
       [] pc = "nominatimDelay" -> later + 4
       [] pc = "fallback" -> later + 1 + (3 - fq)
       [] pc = "sleep" -> later + 1
       [] pc = "saveOutput" -> 1
       [] OTHER -> 0

\* C35: every step of a run lowers the bound of the steps still to take, so
\* no run goes on for ever, and the bound is 0 only once the process has
\* ended; a run over a parsed table that has ended has written the cache
\* file and the output file, in this order; a request is sent for the row
\* that follows the last record pushed, never for a later one, and every
\* request sent before it is answered; and no record takes more than 8
\* requests.
C35_BoundedRun ==
  [][/\ StepsLeft' < StepsLeft
     /\ StepsLeft' = 0 => pc' \in {"done", "failed"}
     /\ pc' = "done" => /\ pc = "saveOutput"
                        /\ cacheFile' = cache /\ outFile' = [written |-> TRUE, data |-> output]
     /\ (pc = "loop" /\ pc' = "saveOutput") => cacheFile' = cache /\ ~outFile'.written
     /\ Len(trace') > Len(trace) =>
          /\ Len(trace') = Len(trace) + 1
          /\ trace'[Len(trace')].row = Len(output) + 1 \/ trace'[Len(trace')].kind = "sleep"
          /\ \A m \in 1..Len(trace') :
                trace'[m].kind = "request" => trace'[m].answer \in {"hits", "none", "error"}
     /\ \A k \in 1..Len(rows') : Cardinality(RequestsOf(run, k))' <= MaxRequests]_vars

\* C35 witness: a completed run whose first row took all 8 requests, each of
\* them without a hit, and whose second row was searched after it; both files
\* are written.
C35_Witness ==
  /\ pc = "done" /\ Len(output) = 2
  /\ outFile = [written |-> TRUE, data |-> output]
  /\ cacheFile = cache
  /\ Cardinality(RequestsOf(run, 1)) = MaxRequests
  /\ output[1].geocodeNote = "not found"
  /\ RequestsOf(run, 2) # {}
  /\ \A m \in RequestsOf(run, 1) : \A n \in RequestsOf(run, 2) : m < n
====
